---- MODULE Spec2Model ----
(***************************************************************************)
(* midl: createFunctionWithMiddleware(definition, config?).                *)
(*                                                                         *)
(* The model follows one decoration (createFunctionWithMiddleware) and the *)
(* calls made to the function it returns.  A call of functionWithMiddleware*)
(* is a frame (pc, inputs, output, error, result) advanced one statement   *)
(* at a time; `log` records every invocation of the definition and of the  *)
(* hooks made by the current call, with the arguments passed and the way   *)
(* the invocation ended.                                                   *)
(***************************************************************************)
EXTENDS Integers, Sequences, FiniteSets, TLC

VARIABLES
    definition,     \* the base callable handed to createFunctionWithMiddleware
    config,         \* the config argument (UndefinedValue when absent), an object
                    \* the caller keeps a reference to
    closure,        \* the constants assertions, handleError, handleInput and
                    \* handleOutput of line 48, which functionWithMiddleware closes over
    dpc,            \* position in createFunctionWithMiddleware
    assertIndex,    \* index of the assertion the forEach is at
    decorated,      \* what createFunctionWithMiddleware returned
    decorateError,  \* the error createFunctionWithMiddleware threw
    pc,             \* position in the current call
    callerInputs,   \* the arguments the caller passed to the current call
    inputs,         \* the `inputs` rest parameter (reassigned at line 53)
    output,         \* the `output` constant of line 56
    error,          \* the `error` binding of the catch clause
    result,         \* how the current call ended
    log,            \* invocations made by the current call
    asserted,       \* the calls the forEach has made, each with how it ended
    remembered,     \* an earlier call of the returned function, kept to compare
    other,          \* the other of two overlapping calls: the suspended outer call
                    \* while the inner one runs, the ended inner call afterwards
    settled         \* how the promise the remembered call got from the definition
                    \* was settled (UndefinedValue while it is pending)

vars == <<definition, config, closure, dpc, assertIndex, decorated, decorateError,
          pc, callerInputs, inputs, output, error, result, log,
          asserted, remembered, other, settled>>

frame == <<pc, callerInputs, inputs, output, error, result, log>>

observed == <<asserted, remembered, other, settled>>

(***************************************************************************)
(* Bounds.                                                                 *)
(***************************************************************************)
MaxArg == 2
MaxAssertions == 2

(***************************************************************************)
(* JavaScript values.  A number is kept as an exact fraction n/d in lowest *)
(* terms (a / b need not be whole).                                        *)
(***************************************************************************)
UndefinedValue == [t |-> "undefined"]
Str(s) == [t |-> "string", s |-> s]
JsError(m) == [t |-> "error", message |-> m]
NaN == [t |-> "number", n |-> 0, d |-> 0]

\* the promise an async function returns for a call with arguments in; how it is
\* settled is not part of the value
Promise(in) == [t |-> "promise", of |-> in]

RECURSIVE Gcd(_, _)
Gcd(a, b) == IF b = 0 THEN a ELSE Gcd(b, a % b)

Ratio(a, b) == LET g == Gcd(a, b) IN [t |-> "number", n |-> a \div g, d |-> b \div g]
Num(n) == Ratio(n, 1)

NoHook == "undefined"

Returns(v) == [kind |-> "return", value |-> v]
Throws(e) == [kind |-> "throw", error |-> e]

Inputs == {<<a, b>> : a \in 0..MaxArg, b \in 0..MaxArg}

(***************************************************************************)
(* Base callables.                                                         *)
(*   testFunction  (a, b) => a + b                                         *)
(*   faultyFunc    () => { throw new Error("test error") }                 *)
(*   divide        (a, b) => { if (b === 0) throw ...; return a / b }      *)
(*   fetchData     async (url) => { ... await axios.get(url) ... }         *)
(* An async function never throws to its caller: it returns a promise.     *)
(***************************************************************************)
Definitions == {"testFunction", "faultyFunc", "divide"}

\* function fibonacci(n) { if (n <= 1) return n; return fibonacci(n - 1) + fibonacci(n - 2); }
RECURSIVE Fib(_)
Fib(n) == IF n <= 1 THEN n ELSE Fib(n - 1) + Fib(n - 2)

AsyncDefinitions == {"fetchData"}

DefinitionFn(f, in) ==
    CASE f = "testFunction" -> Returns(Num(in[1] + in[2]))
      [] f = "faultyFunc"   -> Throws(JsError("test error"))
      [] f = "divide"       -> IF in[2] = 0
                               THEN Throws(JsError("Cannot divide by zero"))
                               ELSE Returns(Ratio(in[1], in[2]))
      [] f = "fetchData"    -> Returns(Promise(in))
      [] f = "fibonacci"    -> Returns(Num(Fib(in[1])))

(***************************************************************************)
(* Hooks.  hasAccess is a predicate the caller supplies; here a user has   *)
(* access to the resources numbered up to the user's own number.           *)
(***************************************************************************)
hasAccess(user, resource) == resource <= user

HandleInputHooks == {"double", "authorize"}

\* the cache of the memoizing handleInput, as the calls made with n = 2, 3, ... before
\* left it: handleOutput stored fibonacci(n) under n
CacheHas(n) == n >= 2
CacheGet(n) == Fib(n)

HandleInputFn(h, in) ==
    CASE h = "double"    -> Returns(<<in[1] * 2, in[2] * 2>>)
      [] h = "memoize"   -> IF CacheHas(in[1])
                            THEN Returns(<<CacheGet(in[1])>>)
                            ELSE Returns(<<in[1]>>)
      [] h = "authorize" -> IF ~hasAccess(in[1], in[2])
                            THEN Throws(JsError("Access denied"))
                            ELSE Returns(<<in[1], in[2]>>)

HandleOutputHooks == {"double", "requirePositive"}

\* out * 2 and out <= 0 convert an out that is not a number to NaN
HandleOutputFn(h, out, in) ==
    CASE h = "double"          -> IF out.t = "number"
                                  THEN Returns(Ratio(out.n * 2, out.d))
                                  ELSE Returns(NaN)
      [] h = "requirePositive" -> IF out.t = "number" /\ out.n <= 0
                                  THEN Throws(JsError("Output must be positive"))
                                  ELSE Returns(out)

HandleErrorHooks == {"handled", "rethrow"}

HandleErrorFn(h, err, in) ==
    CASE h = "handled" -> Returns(Str("error handled"))
      [] h = "rethrow" -> Throws(err)

(***************************************************************************)
(* The config argument.                                                    *)
(***************************************************************************)
ExampleInputs == {<<1, 2>>, <<2, 1>>, <<2, 0>>}
ExpectedOutputs == {Num(3), Str("3"), Str("error handled")}
Examples == ExampleInputs \X ExpectedOutputs

RECURSIVE SeqsUpTo(_, _)
SeqsUpTo(S, n) ==
    IF n = 0 THEN {<<>>}
    ELSE LET shorter == SeqsUpTo(S, n - 1)
         IN  shorter \cup {Append(q, e) : q \in shorter, e \in S}

Arrays(S) == {[t |-> "array", items |-> q] : q \in S}

Configs ==
    [assertions   : {UndefinedValue} \cup Arrays(SeqsUpTo(Examples, MaxAssertions)),
     handleError  : {NoHook} \cup HandleErrorHooks,
     handleInput  : {NoHook} \cup HandleInputHooks,
     handleOutput : {NoHook} \cup HandleOutputHooks]

\* assertions ?? []
AssertionList(c) == IF c.assertions = UndefinedValue THEN <<>> ELSE c.assertions.items

Event(fn, arg, in, outcome) == [fn |-> fn, arg |-> arg, inputs |-> in, outcome |-> outcome]

IdleFrame ==
    /\ pc = "idle"
    /\ callerInputs = <<>>
    /\ inputs = <<>>
    /\ output = UndefinedValue
    /\ error = UndefinedValue
    /\ result = UndefinedValue
    /\ log = <<>>

Init ==
    /\ definition \in Definitions
    /\ config \in {UndefinedValue} \cup Configs
    /\ closure = UndefinedValue
    /\ dpc = "start"
    /\ assertIndex = 0
    /\ decorated = "none"
    /\ decorateError = UndefinedValue
    /\ IdleFrame
    /\ asserted = <<>>
    /\ remembered = UndefinedValue
    /\ other = UndefinedValue
    /\ settled = UndefinedValue

\* Decorate returning the definition also for a config that holds no hook and no
\* assertion
DecorateEmptyPassthrough ==
    /\ dpc = "start"
    /\ IF \/ config = UndefinedValue
          \/ /\ config.handleError = NoHook
             /\ config.handleInput = NoHook
             /\ config.handleOutput = NoHook
             /\ AssertionList(config) = <<>>
       THEN /\ decorated' = "definition"
            /\ dpc' = "returned"
            /\ assertIndex' = assertIndex
            /\ closure' = closure
       ELSE /\ decorated' = decorated
            /\ dpc' = "asserting"
            /\ assertIndex' = 1
            /\ closure' = config
    /\ UNCHANGED <<observed, definition, config, decorateError, frame>>

(***************************************************************************)
(* createFunctionWithMiddleware, up to the forEach over the assertions:     *)
(* if (!config) return definition; const { assertions, ... } = config.     *)
(***************************************************************************)
Decorate ==
    /\ dpc = "start"
    /\ IF config = UndefinedValue
       THEN /\ decorated' = "definition"
            /\ dpc' = "returned"
            /\ assertIndex' = assertIndex
            /\ closure' = closure
       ELSE /\ decorated' = decorated
            /\ dpc' = "asserting"
            /\ assertIndex' = 1
            /\ closure' = config
    /\ UNCHANGED <<observed, definition, config, decorateError, frame>>

(***************************************************************************)
(* Entry into a call with arguments x: of functionWithMiddleware when next *)
(* is "try", of the definition itself when next is "base".                 *)
(***************************************************************************)
Enter(x, next) ==
    /\ pc' = next
    /\ callerInputs' = x
    /\ inputs' = x
    /\ output' = UndefinedValue
    /\ error' = UndefinedValue
    /\ result' = UndefinedValue
    /\ log' = <<>>

Leave ==
    /\ pc' = "idle"
    /\ callerInputs' = <<>>
    /\ inputs' = <<>>
    /\ output' = UndefinedValue
    /\ error' = UndefinedValue
    /\ result' = UndefinedValue
    /\ log' = <<>>

\* AssertCall taking the assertions from the last to the first
AssertCallReversed ==
    /\ dpc = "asserting"
    /\ pc = "idle"
    /\ assertIndex <= Len(AssertionList(closure))
    /\ LET example == AssertionList(closure)[Len(AssertionList(closure)) + 1 - assertIndex]
       IN  /\ Enter(example[1], "try")
           /\ asserted' = Append(asserted, [index |-> assertIndex,
                                            inputs |-> example[1],
                                            outcome |-> UndefinedValue])
    /\ UNCHANGED <<remembered, other, settled>>
    /\ UNCHANGED <<definition, config, closure, dpc, assertIndex, decorated, decorateError>>

\* AssertCall calling the definition itself, not functionWithMiddleware
AssertCallBare ==
    /\ dpc = "asserting"
    /\ pc = "idle"
    /\ assertIndex <= Len(AssertionList(closure))
    /\ Enter(AssertionList(closure)[assertIndex][1], "base")
    /\ asserted' = Append(asserted, [index |-> assertIndex,
                                     inputs |-> AssertionList(closure)[assertIndex][1],
                                     outcome |-> UndefinedValue])
    /\ UNCHANGED <<remembered, other, settled>>
    /\ UNCHANGED <<definition, config, closure, dpc, assertIndex, decorated, decorateError>>

\* const actualOutput = functionWithMiddleware(...inputs), for the next assertion
AssertCall ==
    /\ dpc = "asserting"
    /\ pc = "idle"
    /\ assertIndex <= Len(AssertionList(closure))
    /\ Enter(AssertionList(closure)[assertIndex][1], "try")
    /\ asserted' = Append(asserted, [index |-> assertIndex,
                                     inputs |-> AssertionList(closure)[assertIndex][1],
                                     outcome |-> UndefinedValue])
    /\ UNCHANGED <<remembered, other, settled>>
    /\ UNCHANGED <<definition, config, closure, dpc, assertIndex, decorated, decorateError>>

(***************************************************************************)
(* String(v) as the template literal and Array.prototype.join apply it.    *)
(***************************************************************************)
RECURSIVE FractionDigits(_, _, _)
FractionDigits(r, d, k) ==
    IF r = 0 \/ k = 0 THEN ""
    ELSE ToString((r * 10) \div d) \o FractionDigits((r * 10) % d, d, k - 1)

JsString(v) ==
    CASE v.t = "string"    -> v.s
      [] v.t = "undefined" -> "undefined"
      [] v.t = "number"    ->
            IF v.d = 1 THEN ToString(v.n)
            ELSE ToString(v.n \div v.d) \o "." \o FractionDigits(v.n % v.d, v.d, 16)

RECURSIVE Join(_, _)
Join(in, sep) ==
    IF Len(in) = 0 THEN ""
    ELSE IF Len(in) = 1 THEN ToString(in[1])
    ELSE ToString(in[1]) \o sep \o Join(Tail(in), sep)

\* definition.name: the divide of the README is an arrow function passed in place
FunctionName(f) == IF f = "divide" THEN "" ELSE f

\* AssertionMessage without the actual output
AssertionMessageNoActual(f, in, expected, actual) ==
    "Expected " \o FunctionName(f) \o "(" \o Join(in, ", ") \o ") to return "
        \o JsString(expected) \o "."

AssertionMessage(f, in, expected, actual) ==
    "Expected " \o FunctionName(f) \o "(" \o Join(in, ", ") \o ") to return "
        \o JsString(expected) \o ", but got " \o JsString(actual) \o "."

\* the comparison left out: no example is ever reported
NeverNotEqual(actual, expected) == FALSE

\* the comparison made with the [inputs, output] pair, which no output equals
NotEqualToPair(actual, expected) == TRUE

\* the comparison made with !=, which converts a string to a number before comparing
LooseNotEqual(actual, expected) == JsString(actual) # JsString(expected)

\* actualOutput !== output
StrictNotEqual(actual, expected) == actual # expected

\* AssertCompare with the call wrapped in a try: an error functionWithMiddleware
\* throws is reported as a mismatch
AssertCompareDescribes ==
    /\ dpc = "asserting"
    /\ pc = "done"
    /\ LET example == AssertionList(closure)[assertIndex]
           actual == IF result.kind = "throw" THEN UndefinedValue ELSE result.value
       IN  IF StrictNotEqual(actual, example[2])
           THEN /\ dpc' = "threw"
                /\ decorateError' = JsError(AssertionMessage(definition, example[1],
                                                             example[2], actual))
                /\ assertIndex' = assertIndex
           ELSE /\ dpc' = dpc
                /\ decorateError' = decorateError
                /\ assertIndex' = assertIndex + 1
    /\ Leave
    /\ asserted' = [asserted EXCEPT ![Len(asserted)].outcome = result]
    /\ UNCHANGED <<remembered, other, settled>>
    /\ UNCHANGED <<definition, config, closure, decorated>>

\* the rest of the forEach callback, once functionWithMiddleware has ended
AssertCompare ==
    /\ dpc = "asserting"
    /\ pc = "done"
    /\ LET example == AssertionList(closure)[assertIndex]
       IN  IF result.kind = "throw"
           THEN /\ dpc' = "threw"
                /\ decorateError' = result.error
                /\ assertIndex' = assertIndex
           ELSE IF StrictNotEqual(result.value, example[2])
           THEN /\ dpc' = "threw"
                /\ decorateError' = JsError(AssertionMessage(definition, example[1],
                                                             example[2], result.value))
                /\ assertIndex' = assertIndex
           ELSE /\ dpc' = dpc
                /\ decorateError' = decorateError
                /\ assertIndex' = assertIndex + 1
    /\ Leave
    /\ asserted' = [asserted EXCEPT ![Len(asserted)].outcome = result]
    /\ UNCHANGED <<remembered, other, settled>>
    /\ UNCHANGED <<definition, config, closure, decorated>>

\* return functionWithMiddleware as F
DecorateReturn ==
    /\ dpc = "asserting"
    /\ pc = "idle"
    /\ assertIndex > Len(AssertionList(closure))
    /\ decorated' = "functionWithMiddleware"
    /\ dpc' = "returned"
    /\ UNCHANGED <<observed, definition, config, closure, assertIndex, decorateError, frame>>

(***************************************************************************)
(* A caller invokes what createFunctionWithMiddleware returned.            *)
(***************************************************************************)
Call(x) ==
    /\ dpc = "returned"
    /\ pc = "idle"
    /\ Enter(x, IF decorated = "definition" THEN "base" ELSE "try")
    /\ UNCHANGED <<observed, definition, config, closure, dpc, assertIndex, decorated, decorateError>>

\* the returned function is the definition itself (line 45): the call runs it
CallDefinition ==
    /\ pc = "base"
    /\ LET r == DefinitionFn(definition, inputs)
       IN  /\ result' = r
           /\ log' = Append(log, Event("definition", UndefinedValue, inputs, r))
    /\ pc' = "done"
    /\ UNCHANGED <<observed, definition, config, closure, dpc, assertIndex, decorated, decorateError,
                   callerInputs, inputs, output, error>>

(***************************************************************************)
(* functionWithMiddleware, one statement at a time.                        *)
(***************************************************************************)
\* StepHandleInput with the try block closed around handleInput alone: an
\* error handleInput throws is dropped and the definition is invoked all the same
StepHandleInputSwallows ==
    /\ pc = "try"
    /\ IF closure.handleInput # NoHook
       THEN LET r == HandleInputFn(closure.handleInput, inputs)
            IN  /\ log' = Append(log, Event("handleInput", UndefinedValue, inputs, r))
                /\ inputs' = IF r.kind = "return" THEN r.value ELSE inputs
       ELSE UNCHANGED <<inputs, log>>
    /\ pc' = "invoke"
    /\ error' = error
    /\ UNCHANGED <<observed, definition, config, closure, dpc, assertIndex, decorated, decorateError,
                   callerInputs, output, result>>

\* StepHandleInput reading config.handleInput when the call is made, not the constant
\* bound at line 48
StepHandleInputLate ==
    /\ pc = "try"
    /\ IF config.handleInput # NoHook
       THEN LET r == HandleInputFn(config.handleInput, inputs)
            IN  /\ log' = Append(log, Event("handleInput", UndefinedValue, inputs, r))
                /\ IF r.kind = "return"
                   THEN /\ inputs' = r.value
                        /\ error' = error
                        /\ pc' = "invoke"
                   ELSE /\ inputs' = inputs
                        /\ error' = r.error
                        /\ pc' = "catch"
       ELSE /\ pc' = "invoke"
            /\ UNCHANGED <<inputs, error, log>>
    /\ UNCHANGED <<observed, definition, config, closure, dpc, assertIndex, decorated, decorateError,
                   callerInputs, output, result>>

\* StepHandleInput with handleInput called before the try block: an error it throws
\* leaves the function at once, past the catch clause
StepHandleInputPropagates ==
    /\ pc = "try"
    /\ IF closure.handleInput # NoHook
       THEN LET r == HandleInputFn(closure.handleInput, inputs)
            IN  /\ log' = Append(log, Event("handleInput", UndefinedValue, inputs, r))
                /\ inputs' = IF r.kind = "return" THEN r.value ELSE inputs
                /\ result' = IF r.kind = "return" THEN result ELSE r
                /\ pc' = IF r.kind = "return" THEN "invoke" ELSE "done"
       ELSE /\ pc' = "invoke"
            /\ UNCHANGED <<inputs, result, log>>
    /\ error' = error
    /\ UNCHANGED <<observed, definition, config, closure, dpc, assertIndex, decorated, decorateError,
                   callerInputs, output>>

\* StepHandleInput without the assignment to inputs: handleInput is called and
\* what it returns is discarded
StepHandleInputDiscards ==
    /\ pc = "try"
    /\ IF closure.handleInput # NoHook
       THEN LET r == HandleInputFn(closure.handleInput, inputs)
            IN  /\ log' = Append(log, Event("handleInput", UndefinedValue, inputs, r))
                /\ error' = IF r.kind = "return" THEN error ELSE r.error
                /\ pc' = IF r.kind = "return" THEN "invoke" ELSE "catch"
       ELSE /\ pc' = "invoke"
            /\ UNCHANGED <<error, log>>
    /\ inputs' = inputs
    /\ UNCHANGED <<observed, definition, config, closure, dpc, assertIndex, decorated, decorateError,
                   callerInputs, output, result>>

\* try { if (handleInput) { inputs = handleInput(definition, ...inputs); }
StepHandleInput ==
    /\ pc = "try"
    /\ IF closure.handleInput # NoHook
       THEN LET r == HandleInputFn(closure.handleInput, inputs)
            IN  /\ log' = Append(log, Event("handleInput", UndefinedValue, inputs, r))
                /\ IF r.kind = "return"
                   THEN /\ inputs' = r.value
                        /\ error' = error
                        /\ pc' = "invoke"
                   ELSE /\ inputs' = inputs
                        /\ error' = r.error
                        /\ pc' = "catch"
       ELSE /\ pc' = "invoke"
            /\ UNCHANGED <<inputs, error, log>>
    /\ UNCHANGED <<observed, definition, config, closure, dpc, assertIndex, decorated, decorateError,
                   callerInputs, output, result>>

\* StepDefinition with the output of an earlier call kept in the closure and
\* returned again, whatever the inputs
StepDefinitionCached ==
    /\ pc = "invoke"
    /\ LET cached == IF remembered = UndefinedValue THEN {}
                     ELSE {i \in DOMAIN remembered.log :
                              /\ remembered.log[i].fn = "definition"
                              /\ remembered.log[i].outcome.kind = "return"}
           r == IF cached = {} THEN DefinitionFn(definition, inputs)
                ELSE remembered.log[CHOOSE i \in cached : TRUE].outcome
       IN  /\ log' = Append(log, Event("definition", UndefinedValue, inputs, r))
           /\ IF r.kind = "return"
              THEN /\ output' = r.value
                   /\ error' = error
                   /\ pc' = "output"
              ELSE /\ output' = output
                   /\ error' = r.error
                   /\ pc' = "catch"
    /\ UNCHANGED <<observed, definition, config, closure, dpc, assertIndex, decorated, decorateError,
                   callerInputs, inputs, result>>

\* const output = definition(...inputs);
StepDefinition ==
    /\ pc = "invoke"
    /\ LET r == DefinitionFn(definition, inputs)
       IN  /\ log' = Append(log, Event("definition", UndefinedValue, inputs, r))
           /\ IF r.kind = "return"
              THEN /\ output' = r.value
                   /\ error' = error
                   /\ pc' = "output"
              ELSE /\ output' = output
                   /\ error' = r.error
                   /\ pc' = "catch"
    /\ UNCHANGED <<observed, definition, config, closure, dpc, assertIndex, decorated, decorateError,
                   callerInputs, inputs, result>>

\* StepHandleOutput with the handleOutput branch missing: return output
StepHandleOutputSkips ==
    /\ pc = "output"
    /\ result' = Returns(output)
    /\ pc' = "done"
    /\ UNCHANGED <<error, log>>
    /\ UNCHANGED <<observed, definition, config, closure, dpc, assertIndex, decorated, decorateError,
                   callerInputs, inputs, output>>

\* StepHandleOutput handing handleOutput the arguments of the call, not the
\* reassigned inputs
StepHandleOutputCallerInputs ==
    /\ pc = "output"
    /\ IF closure.handleOutput # NoHook
       THEN LET r == HandleOutputFn(closure.handleOutput, output, callerInputs)
            IN  /\ log' = Append(log, Event("handleOutput", output, callerInputs, r))
                /\ IF r.kind = "return"
                   THEN /\ result' = r
                        /\ error' = error
                        /\ pc' = "done"
                   ELSE /\ result' = result
                        /\ error' = r.error
                        /\ pc' = "catch"
       ELSE /\ result' = Returns(output)
            /\ pc' = "done"
            /\ UNCHANGED <<error, log>>
    /\ UNCHANGED <<observed, definition, config, closure, dpc, assertIndex, decorated, decorateError,
                   callerInputs, inputs, output>>

\* if (handleOutput) { return handleOutput(definition, output, ...inputs); } return output;
StepHandleOutput ==
    /\ pc = "output"
    /\ IF closure.handleOutput # NoHook
       THEN LET r == HandleOutputFn(closure.handleOutput, output, inputs)
            IN  /\ log' = Append(log, Event("handleOutput", output, inputs, r))
                /\ IF r.kind = "return"
                   THEN /\ result' = r
                        /\ error' = error
                        /\ pc' = "done"
                   ELSE /\ result' = result
                        /\ error' = r.error
                        /\ pc' = "catch"
       ELSE /\ result' = Returns(output)
            /\ pc' = "done"
            /\ UNCHANGED <<error, log>>
    /\ UNCHANGED <<observed, definition, config, closure, dpc, assertIndex, decorated, decorateError,
                   callerInputs, inputs, output>>

\* StepCatch with handleError called again on the error handleError itself throws
StepCatchRetries ==
    /\ pc = "catch"
    /\ IF closure.handleError # NoHook
       THEN LET r == HandleErrorFn(closure.handleError, error, inputs)
                first == Append(log, Event("handleError", error, inputs, r))
            IN  IF r.kind = "return"
                THEN /\ log' = first
                     /\ result' = r
                ELSE LET again == HandleErrorFn(closure.handleError, r.error, inputs)
                     IN  /\ log' = Append(first, Event("handleError", r.error, inputs, again))
                         /\ result' = again
       ELSE /\ result' = Throws(error)
            /\ log' = log
    /\ pc' = "done"
    /\ UNCHANGED <<observed, definition, config, closure, dpc, assertIndex, decorated, decorateError,
                   callerInputs, inputs, output, error>>

\* StepCatch throwing a new error in place of the one caught
StepCatchWrapsError ==
    /\ pc = "catch"
    /\ IF closure.handleError # NoHook
       THEN LET r == HandleErrorFn(closure.handleError, error, inputs)
            IN  /\ log' = Append(log, Event("handleError", error, inputs, r))
                /\ result' = r
       ELSE /\ result' = Throws(JsError("Error: " \o error.message))
            /\ log' = log
    /\ pc' = "done"
    /\ UNCHANGED <<observed, definition, config, closure, dpc, assertIndex, decorated, decorateError,
                   callerInputs, inputs, output, error>>

\* StepCatch with the handleError branch missing: throw error
StepCatchRethrows ==
    /\ pc = "catch"
    /\ result' = Throws(error)
    /\ log' = log
    /\ pc' = "done"
    /\ UNCHANGED <<observed, definition, config, closure, dpc, assertIndex, decorated, decorateError,
                   callerInputs, inputs, output, error>>

\* StepCatch with `throw error` missing: without handleError the call returns undefined
StepCatchSwallows ==
    /\ pc = "catch"
    /\ IF closure.handleError # NoHook
       THEN LET r == HandleErrorFn(closure.handleError, error, inputs)
            IN  /\ log' = Append(log, Event("handleError", error, inputs, r))
                /\ result' = r
       ELSE /\ result' = Returns(UndefinedValue)
            /\ log' = log
    /\ pc' = "done"
    /\ UNCHANGED <<observed, definition, config, closure, dpc, assertIndex, decorated, decorateError,
                   callerInputs, inputs, output, error>>

\* StepCatch handing handleError the arguments of the call, not the reassigned inputs
StepCatchCallerInputs ==
    /\ pc = "catch"
    /\ IF closure.handleError # NoHook
       THEN LET r == HandleErrorFn(closure.handleError, error, callerInputs)
            IN  /\ log' = Append(log, Event("handleError", error, callerInputs, r))
                /\ result' = r
       ELSE /\ result' = Throws(error)
            /\ log' = log
    /\ pc' = "done"
    /\ UNCHANGED <<observed, definition, config, closure, dpc, assertIndex, decorated, decorateError,
                   callerInputs, inputs, output, error>>

\* } catch (error) { if (handleError) { return handleError(definition, error, ...inputs); }
\*   throw error; }
StepCatch ==
    /\ pc = "catch"
    /\ IF closure.handleError # NoHook
       THEN LET r == HandleErrorFn(closure.handleError, error, inputs)
            IN  /\ log' = Append(log, Event("handleError", error, inputs, r))
                /\ result' = r
       ELSE /\ result' = Throws(error)
            /\ log' = log
    /\ pc' = "done"
    /\ UNCHANGED <<observed, definition, config, closure, dpc, assertIndex, decorated, decorateError,
                   callerInputs, inputs, output, error>>

\* Return with the assertions evaluated again after every call
ReturnRechecks ==
    /\ dpc = "returned"
    /\ pc = "done"
    /\ Leave
    /\ dpc' = "asserting"
    /\ assertIndex' = 1
    /\ UNCHANGED <<observed, definition, config, closure, decorated, decorateError>>

\* the call ends and its caller has the value or the error
Return ==
    /\ dpc = "returned"
    /\ pc = "done"
    /\ other # UndefinedValue => other.pc = "done"
    /\ Leave
    /\ other' = UndefinedValue
    /\ UNCHANGED <<asserted, remembered, settled>>
    /\ UNCHANGED <<definition, config, closure, dpc, assertIndex, decorated, decorateError>>

\* Return, with the call that ends kept for comparison with the calls to come
ReturnRemembered ==
    /\ dpc = "returned"
    /\ pc = "done"
    /\ remembered = UndefinedValue
    /\ remembered' = [callerInputs |-> callerInputs, result |-> result, log |-> log]
    /\ Leave
    /\ UNCHANGED <<asserted, other, settled>>
    /\ UNCHANGED <<definition, config, closure, dpc, assertIndex, decorated, decorateError>>

Next ==
    \/ Decorate
    \/ AssertCall
    \/ AssertCompare
    \/ DecorateReturn
    \/ \E x \in Inputs : Call(x)
    \/ CallDefinition
    \/ StepHandleInput
    \/ StepDefinition
    \/ StepHandleOutput
    \/ StepCatch
    \/ Return

Spec == Init /\ [][Next]_vars

(***************************************************************************)
(* Re-entry: the definition or a hook that a call is about to run calls    *)
(* the returned function itself, with arguments x, before it does its own  *)
(* work.  The outer call waits until the inner call has ended.             *)
(***************************************************************************)
Reenter(x) ==
    /\ dpc = "returned"
    /\ decorated = "functionWithMiddleware"
    /\ other = UndefinedValue
    /\ \/ pc = "try" /\ closure.handleInput # NoHook
       \/ pc = "invoke"
       \/ pc = "output" /\ closure.handleOutput # NoHook
       \/ pc = "catch" /\ closure.handleError # NoHook
    /\ other' = [pc |-> pc, callerInputs |-> callerInputs, inputs |-> inputs,
                 output |-> output, error |-> error, result |-> result, log |-> log]
    /\ Enter(x, "try")
    /\ UNCHANGED <<asserted, remembered, settled>>
    /\ UNCHANGED <<definition, config, closure, dpc, assertIndex, decorated, decorateError>>

\* Resume with inputs a variable of the closure, shared by all the calls: the outer
\* call goes on with the inputs the inner call left
ResumeSharedInputs ==
    /\ pc = "done"
    /\ other # UndefinedValue
    /\ other.pc # "done"
    /\ pc' = other.pc
    /\ callerInputs' = other.callerInputs
    /\ inputs' = inputs
    /\ output' = other.output
    /\ error' = other.error
    /\ result' = other.result
    /\ log' = other.log
    /\ other' = [pc |-> pc, callerInputs |-> callerInputs, inputs |-> inputs,
                 output |-> output, error |-> error, result |-> result, log |-> log]
    /\ UNCHANGED <<asserted, remembered, settled>>
    /\ UNCHANGED <<definition, config, closure, dpc, assertIndex, decorated, decorateError>>

\* the inner call has ended: the outer call goes on where it was
Resume ==
    /\ pc = "done"
    /\ other # UndefinedValue
    /\ other.pc # "done"
    /\ pc' = other.pc
    /\ callerInputs' = other.callerInputs
    /\ inputs' = other.inputs
    /\ output' = other.output
    /\ error' = other.error
    /\ result' = other.result
    /\ log' = other.log
    /\ other' = [pc |-> pc, callerInputs |-> callerInputs, inputs |-> inputs,
                 output |-> output, error |-> error, result |-> result, log |-> log]
    /\ UNCHANGED <<asserted, remembered, settled>>
    /\ UNCHANGED <<definition, config, closure, dpc, assertIndex, decorated, decorateError>>

InitReentrant ==
    /\ Init
    /\ config # UndefinedValue
    /\ config.assertions = UndefinedValue

NextReentrant ==
    \/ Decorate
    \/ DecorateReturn
    \/ \E x \in Inputs : Call(x)
    \/ StepHandleInput
    \/ StepDefinition
    \/ StepHandleOutput
    \/ StepCatch
    \/ \E x \in Inputs : Reenter(x)
    \/ Resume
    \/ Return

SpecReentrant == InitReentrant /\ [][NextReentrant]_vars

(***************************************************************************)
(* The same program, with one earlier call of the returned function kept.  *)
(***************************************************************************)
NextHistory == Next \/ ReturnRemembered

SpecHistory == Init /\ [][NextHistory]_vars

(***************************************************************************)
(* An asynchronous definition.  The promise it returned is settled by the  *)
(* event loop, which runs only once the synchronous code has run to its    *)
(* end: the call that got the promise has returned by then.                *)
(***************************************************************************)
Settlements == {Returns(Str("data")), Throws(JsError("Network Error"))}

Settle(outcome) ==
    /\ pc = "idle"
    /\ remembered # UndefinedValue
    /\ settled = UndefinedValue
    /\ \E i \in DOMAIN remembered.log :
          /\ remembered.log[i].fn = "definition"
          /\ remembered.log[i].outcome.kind = "return"
          /\ remembered.log[i].outcome.value.t = "promise"
    /\ settled' = outcome
    /\ UNCHANGED <<asserted, remembered, other>>
    /\ UNCHANGED <<definition, config, closure, dpc, assertIndex, decorated, decorateError,
                   frame>>

InitAsync ==
    /\ definition \in AsyncDefinitions
    /\ config \in {c \in Configs : c.assertions = UndefinedValue}
    /\ closure = UndefinedValue
    /\ dpc = "start"
    /\ assertIndex = 0
    /\ decorated = "none"
    /\ decorateError = UndefinedValue
    /\ IdleFrame
    /\ asserted = <<>>
    /\ remembered = UndefinedValue
    /\ other = UndefinedValue
    /\ settled = UndefinedValue

NextAsync ==
    \/ Decorate
    \/ DecorateReturn
    \/ \E x \in Inputs : Call(x)
    \/ StepHandleInput
    \/ StepDefinition
    \/ StepHandleOutput
    \/ StepCatch
    \/ Return
    \/ ReturnRemembered
    \/ \E outcome \in Settlements : Settle(outcome)

SpecAsync == InitAsync /\ [][NextAsync]_vars

(***************************************************************************)
(* The caller keeps the object it passed as config and changes it once     *)
(* createFunctionWithMiddleware has returned, between two calls: it        *)
(* assigns to a field (another hook or none; no assertions or an empty     *)
(* array), or pushes an example, one that no definition here passes, onto  *)
(* the assertions array.  The constants of line 48                         *)
(* hold what the fields held then; the array they hold is the very array   *)
(* of config.assertions, so a push shows through both.                     *)
(***************************************************************************)
LateExamples == {<<<<2, 0>>, Str("3")>>}

ConfigFields == {"assertions", "handleError", "handleInput", "handleOutput"}

FieldValues(field) ==
    CASE field = "assertions"   -> {UndefinedValue} \cup Arrays({<<>>})
      [] field = "handleError"  -> {NoHook} \cup HandleErrorHooks
      [] field = "handleInput"  -> {NoHook} \cup HandleInputHooks
      [] field = "handleOutput" -> {NoHook} \cup HandleOutputHooks

\* config[field] = v, in the caller's code
AssignField(field, v) ==
    /\ dpc = "returned"
    /\ pc = "idle"
    /\ config = closure
    /\ v # config[field]
    /\ config' = [config EXCEPT ![field] = v]
    /\ UNCHANGED <<observed, definition, closure, dpc, assertIndex, decorated, decorateError,
                   frame>>

\* config.assertions.push(example), in the caller's code
PushExample(example) ==
    /\ dpc = "returned"
    /\ pc = "idle"
    /\ config.assertions # UndefinedValue
    /\ config.assertions = closure.assertions
    /\ Len(config.assertions.items) < MaxAssertions
    /\ config' = [config EXCEPT !.assertions.items = Append(@, example)]
    /\ closure' = [closure EXCEPT !.assertions.items = Append(@, example)]
    /\ UNCHANGED <<observed, definition, dpc, assertIndex, decorated, decorateError, frame>>

InitMutation ==
    /\ Init
    /\ config # UndefinedValue

NextMutation ==
    \/ Decorate
    \/ AssertCall
    \/ AssertCompare
    \/ DecorateReturn
    \/ \E x \in Inputs : Call(x)
    \/ StepHandleInput
    \/ StepDefinition
    \/ StepHandleOutput
    \/ StepCatch
    \/ Return
    \/ \E field \in ConfigFields : \E v \in FieldValues(field) : AssignField(field, v)
    \/ \E example \in LateExamples : PushExample(example)

SpecMutation == InitMutation /\ [][NextMutation]_vars

(***************************************************************************)
(* Memoization through handleInput: fibonacci with the memoizing hook.     *)
(***************************************************************************)
InitCaching ==
    /\ definition = "fibonacci"
    /\ config \in {[c EXCEPT !.handleInput = "memoize"] : c \in Configs}
    /\ closure = UndefinedValue
    /\ dpc = "start"
    /\ assertIndex = 0
    /\ decorated = "none"
    /\ decorateError = UndefinedValue
    /\ IdleFrame
    /\ asserted = <<>>
    /\ remembered = UndefinedValue
    /\ other = UndefinedValue
    /\ settled = UndefinedValue

NextCaching ==
    \/ Decorate
    \/ AssertCall
    \/ AssertCompare
    \/ DecorateReturn
    \/ \E x \in Inputs : Call(x)
    \/ StepHandleInput
    \/ StepDefinition
    \/ StepHandleOutput
    \/ StepCatch
    \/ Return

SpecCaching == InitCaching /\ [][NextCaching]_vars

(***************************************************************************)
(* Vocabulary of the properties.                                           *)
(***************************************************************************)
\* the hook the current decoration holds under a field of config
HookOf(field) == IF config = UndefinedValue THEN NoHook ELSE config[field]

\* positions in log of the invocations of fn made by the current call
Calls(fn) == {i \in DOMAIN log : log[i].fn = fn}

Returned(i) == log[i].outcome.kind = "return"
Threw(i) == log[i].outcome.kind = "throw"

NoMiddleware ==
    \/ config = UndefinedValue
    \/ /\ config.handleError = NoHook
       /\ config.handleInput = NoHook
       /\ config.handleOutput = NoHook
       /\ AssertionList(config) = <<>>

StageRank(fn) ==
    CASE fn = "handleInput"  -> 1
      [] fn = "definition"   -> 2
      [] fn = "handleOutput" -> 3
      [] fn = "handleError"  -> 4

(***************************************************************************)
(* C1  Identity law: with config absent or an empty record, a call ends    *)
(* exactly as definition(...x) ends, returning the same value or throwing  *)
(* the same error, and the definition is invoked exactly once, with x.     *)
(***************************************************************************)
IdentityLaw ==
    (pc = "done" /\ NoMiddleware) =>
        /\ result = DefinitionFn(definition, callerInputs)
        /\ Len(log) = 1
        /\ log[1].fn = "definition"
        /\ log[1].inputs = callerInputs

IdentityLawWitness ==
    /\ pc = "done"
    /\ config # UndefinedValue
    /\ NoMiddleware
    /\ result.kind = "throw"

InputTransformLaw ==
    \A i \in Calls("definition") :
        IF HookOf("handleInput") = NoHook
        THEN log[i].inputs = callerInputs
        ELSE \E j \in Calls("handleInput") :
                /\ j < i
                /\ log[j].inputs = callerInputs
                /\ log[j].outcome = HandleInputFn(config.handleInput, callerInputs)
                /\ log[j].outcome = Returns(log[i].inputs)

InputTransformLawWitness ==
    /\ pc = "done"
    /\ HookOf("handleInput") = "double"
    /\ \E i \in Calls("definition") : log[i].inputs # callerInputs

(***************************************************************************)
(* C4  Output transform law: when the definition returns output, the call  *)
(* returns what handleOutput(definition, output, ...inputs) returns if     *)
(* handleOutput is defined, and output itself if handleOutput is absent.   *)
(***************************************************************************)
OutputTransformLaw ==
    pc = "done" =>
        \A i \in Calls("definition") :
            Returned(i) =>
                IF HookOf("handleOutput") = NoHook
                THEN result = Returns(log[i].outcome.value)
                ELSE \E j \in Calls("handleOutput") :
                        /\ j > i
                        /\ log[j].arg = log[i].outcome.value
                        /\ log[j].outcome = HandleOutputFn(config.handleOutput,
                                                           log[i].outcome.value,
                                                           log[i].inputs)
                        /\ Returned(j) => result = log[j].outcome

OutputTransformLawWitness ==
    /\ pc = "done"
    /\ HookOf("handleOutput") = "double"
    /\ result.kind = "return"
    /\ \E i \in Calls("definition") : Returned(i) /\ result.value # log[i].outcome.value

(***************************************************************************)
(* C5  Error recovery law: when the definition throws and handleError is   *)
(* defined, handleError is passed the error the definition threw, and when *)
(* it returns the call returns that value and does not throw.              *)
(***************************************************************************)
ErrorRecoveryLaw ==
    pc = "done" =>
        \A i \in Calls("definition") :
            (Threw(i) /\ HookOf("handleError") # NoHook) =>
                \E j \in Calls("handleError") :
                    /\ j > i
                    /\ log[j].arg = log[i].outcome.error
                    /\ Returned(j) => result = Returns(log[j].outcome.value)

ErrorRecoveryLawWitness ==
    /\ pc = "done"
    /\ definition = "faultyFunc"
    /\ HookOf("handleError") = "handled"
    /\ result = Returns(Str("error handled"))

(***************************************************************************)
(* C6  Mutual exclusion: a call that invokes handleError does not invoke   *)
(* handleOutput.                                                           *)
(***************************************************************************)
MutualExclusion ==
    ~(Calls("handleError") # {} /\ Calls("handleOutput") # {})

(***************************************************************************)
(* C7  An error thrown by handleInput propagates unchanged: handleError is *)
(* not invoked and the caller receives the error handleInput threw.        *)
(***************************************************************************)
InputHookErrorPropagates ==
    pc = "done" =>
        \A i \in Calls("handleInput") :
            Threw(i) =>
                /\ Calls("handleError") = {}
                /\ result = Throws(log[i].outcome.error)

(***************************************************************************)
(* C8  An error thrown by handleOutput propagates unchanged: handleError   *)
(* is not invoked and the caller receives the error handleOutput threw.    *)
(***************************************************************************)
OutputHookErrorPropagates ==
    pc = "done" =>
        \A i \in Calls("handleOutput") :
            Threw(i) =>
                /\ Calls("handleError") = {}
                /\ result = Throws(log[i].outcome.error)

(***************************************************************************)
(* C9  No-recovery propagation: when the definition throws and handleError *)
(* is absent, the call throws the error the definition threw.              *)
(***************************************************************************)
NoRecoveryPropagation ==
    pc = "done" =>
        \A i \in Calls("definition") :
            (Threw(i) /\ HookOf("handleError") = NoHook) =>
                result = Throws(log[i].outcome.error)

NoRecoveryPropagationWitness ==
    /\ pc = "done"
    /\ config # UndefinedValue
    /\ config.handleError = NoHook
    /\ config.handleOutput # NoHook
    /\ \E i \in Calls("definition") : Threw(i)
    /\ result.kind = "throw"

(***************************************************************************)
(* C10  When the definition throws and handleInput and handleError are     *)
(* both defined, handleError receives the tuple handleInput returned (the  *)
(* one the definition was invoked with), not the caller's tuple.           *)
(***************************************************************************)
ErrorHookInputs ==
    pc = "done" =>
        \A i \in Calls("definition") :
            (Threw(i) /\ HookOf("handleInput") # NoHook /\ HookOf("handleError") # NoHook) =>
                \E j \in Calls("handleError"), k \in Calls("handleInput") :
                    /\ log[k].outcome = Returns(log[j].inputs)
                    /\ log[j].inputs = log[i].inputs

ErrorHookInputsWitness ==
    /\ pc = "done"
    /\ \E i \in Calls("definition"), j \in Calls("handleError") :
          /\ Threw(i)
          /\ HookOf("handleInput") = "double"
          /\ log[j].inputs # callerInputs

(***************************************************************************)
(* C11  When handleInput and handleOutput are both defined and the         *)
(* definition returns, handleOutput receives, after the output, the tuple  *)
(* handleInput returned (the one the definition was invoked with), not the *)
(* caller's tuple.                                                         *)
(***************************************************************************)
OutputHookInputs ==
    \A j \in Calls("handleOutput") :
        HookOf("handleInput") # NoHook =>
            \E i \in Calls("definition"), k \in Calls("handleInput") :
                /\ k < i /\ i < j
                /\ Returned(i)
                /\ log[k].outcome = Returns(log[j].inputs)
                /\ log[j].inputs = log[i].inputs
                /\ log[j].arg = log[i].outcome.value

OutputHookInputsWitness ==
    /\ pc = "done"
    /\ HookOf("handleInput") = "double"
    /\ \E j \in Calls("handleOutput") : log[j].inputs # callerInputs

(***************************************************************************)
(* Vocabulary of the decoration-time properties.                           *)
(***************************************************************************)
\* the assertion the k-th call of the forEach was made for
ExampleOf(k) == AssertionList(config)[asserted[k].index]

Ended(k) == asserted[k].outcome # UndefinedValue

\* the k-th call of the forEach returned the expected output
Passed(k) == Ended(k) /\ asserted[k].outcome = Returns(ExampleOf(k)[2])

\* the k-th call of the forEach returned another value than the expected output
Mismatched(k) ==
    /\ Ended(k)
    /\ asserted[k].outcome.kind = "return"
    /\ asserted[k].outcome.value # ExampleOf(k)[2]

(***************************************************************************)
(* C12  Assertion fail: once a call made for an example has returned a     *)
(* value other than the expected one, createFunctionWithMiddleware has     *)
(* thrown and returned no function; and it returns a function only when    *)
(* every example was called and returned its expected output.              *)
(***************************************************************************)
AssertionFail ==
    /\ \A k \in DOMAIN asserted :
          Mismatched(k) =>
              /\ dpc = "threw"
              /\ decorated = "none"
              /\ decorateError.t = "error"
    /\ (dpc = "returned" /\ config # UndefinedValue) =>
          /\ Len(asserted) = Len(AssertionList(config))
          /\ \A k \in DOMAIN asserted : Passed(k)

AssertionFailWitness ==
    /\ dpc = "threw"
    /\ definition = "testFunction"
    /\ Len(asserted) = 2
    /\ Passed(1)
    /\ Mismatched(2)

(***************************************************************************)
(* C13  Assertion pass: createFunctionWithMiddleware throws only when a    *)
(* call made for an example did not return the expected output; when every *)
(* example has been called and has passed, it returns                      *)
(* functionWithMiddleware.                                                 *)
(***************************************************************************)
AssertionPass ==
    /\ dpc = "threw" => \E k \in DOMAIN asserted : Ended(k) /\ ~Passed(k)
    /\ (/\ config # UndefinedValue
        /\ dpc # "start"
        /\ pc = "idle"
        /\ Len(asserted) = Len(AssertionList(config))
        /\ \A k \in DOMAIN asserted : Passed(k)) =>
          \/ dpc = "asserting" /\ ENABLED DecorateReturn
          \/ dpc = "returned" /\ decorated = "functionWithMiddleware"

AssertionPassWitness ==
    /\ dpc = "returned"
    /\ decorated = "functionWithMiddleware"
    /\ Len(asserted) = 2
    /\ asserted[1].inputs # asserted[2].inputs
    /\ pc = "done"

(***************************************************************************)
(* C14  The examples are called in sequence order, once each, and no       *)
(* example is called after one that did not pass.                          *)
(***************************************************************************)
ExamplesInOrder ==
    IF config = UndefinedValue THEN asserted = <<>>
    ELSE /\ Len(asserted) <= Len(AssertionList(config))
         /\ \A k \in DOMAIN asserted :
               /\ asserted[k].index = k
               /\ asserted[k].inputs = AssertionList(config)[k][1]
               /\ k < Len(asserted) => Passed(k)
         /\ dpc = "threw" => ~Passed(Len(asserted))

ExamplesInOrderWitness ==
    /\ dpc = "threw"
    /\ Len(AssertionList(config)) = 2
    /\ AssertionList(config)[1][1] # AssertionList(config)[2][1]
    /\ Len(asserted) = 1
    /\ Mismatched(1)

(***************************************************************************)
(* C15  Assertions run exactly once, at decoration time: when              *)
(* createFunctionWithMiddleware returns, the forEach has made one call per *)
(* example; afterwards no step makes another such call, re-enters the      *)
(* forEach or raises a decoration error; each call of the returned         *)
(* function invokes the definition exactly once when handleInput is absent *)
(* or returns, and an error such a call throws is one that the definition  *)
(* or a hook threw in that call.                                           *)
(***************************************************************************)
AssertionsRunOnce ==
    /\ [](dpc = "returned" =>
            IF config = UndefinedValue THEN asserted = <<>>
            ELSE /\ Len(asserted) = Len(AssertionList(config))
                 /\ \A k \in DOMAIN asserted : asserted[k].index = k)
    /\ [][dpc = "returned" =>
            /\ dpc' = "returned"
            /\ asserted' = asserted
            /\ assertIndex' = assertIndex
            /\ decorateError' = UndefinedValue]_vars
    /\ [](dpc = "returned" /\ pc = "done" =>
            /\ (\A i \in Calls("handleInput") : Returned(i)) =>
                   Cardinality(Calls("definition")) = 1
            /\ result.kind = "throw" =>
                   \E i \in DOMAIN log : Threw(i) /\ log[i].outcome.error = result.error)

AssertionsRunOnceWitness ==
    /\ dpc = "returned"
    /\ Len(asserted) = 2
    /\ pc = "done"
    /\ Cardinality(Calls("definition")) = 1
    /\ result.kind = "throw"

(***************************************************************************)
(* C16  The error thrown on a mismatch identifies the failing example: its *)
(* message holds the name of the definition, the inputs of the first       *)
(* example that did not match, the expected output of that example and the *)
(* output its call returned.                                               *)
(***************************************************************************)
AssertionErrorIdentifiesExample ==
    \A k \in DOMAIN asserted :
        Mismatched(k) =>
            /\ k = Len(asserted)
            /\ decorateError =
                  JsError("Expected " \o FunctionName(definition) \o "("
                          \o Join(asserted[k].inputs, ", ") \o ") to return "
                          \o JsString(ExampleOf(k)[2]) \o ", but got "
                          \o JsString(asserted[k].outcome.value) \o ".")

AssertionErrorIdentifiesExampleWitness ==
    /\ dpc = "threw"
    /\ Len(asserted) = 2
    /\ Mismatched(2)
    /\ AssertionList(config)[1] # AssertionList(config)[2]
    /\ decorateError.message = "Expected testFunction(2, 0) to return 3, but got 2."

(***************************************************************************)
(* C17  Identity passthrough without wrapping, as claimed: with config     *)
(* absent or an empty record, createFunctionWithMiddleware returns the     *)
(* definition itself.                                                      *)
(***************************************************************************)
PassthroughReturnsDefinition ==
    (dpc = "returned" /\ NoMiddleware) => decorated = "definition"

(***************************************************************************)
(* C17, amended: createFunctionWithMiddleware returns the definition       *)
(* itself exactly when config is absent; for every config that is present, *)
(* the empty record included, it returns functionWithMiddleware.           *)
(***************************************************************************)
PassthroughOnlyWithoutConfig ==
    dpc = "returned" =>
        /\ config = UndefinedValue => decorated = "definition"
        /\ config # UndefinedValue => decorated = "functionWithMiddleware"

PassthroughOnlyWithoutConfigWitness ==
    /\ dpc = "returned"
    /\ config # UndefinedValue
    /\ NoMiddleware
    /\ decorated = "functionWithMiddleware"
    /\ pc = "done"

(***************************************************************************)
(* C18  Propagation policy: an error thrown by the definition or by a hook *)
(* during a call is either handed to handleError or thrown, the same       *)
(* error, to the caller; a call in which something threw returns a value   *)
(* only if handleError returned that value.                                *)
(***************************************************************************)
PropagationPolicy ==
    pc = "done" =>
        /\ \A i \in DOMAIN log :
              Threw(i) =>
                  \/ \E j \in Calls("handleError") :
                        j > i /\ log[j].arg = log[i].outcome.error
                  \/ result = Throws(log[i].outcome.error)
        /\ (result.kind = "return" /\ \E i \in DOMAIN log : Threw(i)) =>
              \E j \in Calls("handleError") : Returned(j) /\ result = log[j].outcome

PropagationPolicyWitness ==
    /\ pc = "done"
    /\ HookOf("handleError") = NoHook
    /\ \E i \in Calls("handleOutput") : Threw(i) /\ result = Throws(log[i].outcome.error)

(***************************************************************************)
(* C19  History independence: a call ends as every earlier call with the   *)
(* same arguments ended, with the same value or error and the same         *)
(* invocations of the definition and the hooks, whatever calls were made   *)
(* in between; this includes the calls the forEach made.                   *)
(***************************************************************************)
HistoryIndependence ==
    pc = "done" =>
        /\ (remembered # UndefinedValue /\ remembered.callerInputs = callerInputs) =>
              /\ result = remembered.result
              /\ log = remembered.log
        /\ \A k \in DOMAIN asserted :
              (Ended(k) /\ asserted[k].inputs = callerInputs) =>
                  result = asserted[k].outcome

HistoryIndependenceWitness ==
    /\ pc = "done"
    /\ remembered # UndefinedValue
    /\ remembered.callerInputs = callerInputs
    /\ Len(log) = 3
    /\ \E k \in DOMAIN asserted : Ended(k) /\ asserted[k].inputs = callerInputs

(***************************************************************************)
(* C20  Independence of overlapping calls: when a call re-enters the       *)
(* returned function, each of the two calls hands handleInput the tuple    *)
(* its own caller passed, and hands the definition, handleOutput and       *)
(* handleError the tuple derived from it (what handleInput returned for    *)
(* it, or the caller's tuple when handleInput is absent or threw), never   *)
(* the tuple of the other call.                                            *)
(***************************************************************************)
OwnTuple(c) ==
    IF HookOf("handleInput") = NoHook THEN c
    ELSE LET r == HandleInputFn(config.handleInput, c)
         IN  IF r.kind = "return" THEN r.value ELSE c

UsesOwnInputs(c, lg) ==
    \A i \in DOMAIN lg :
        lg[i].inputs = IF lg[i].fn = "handleInput" THEN c ELSE OwnTuple(c)

OverlappingCallsIndependent ==
    /\ pc # "idle" => UsesOwnInputs(callerInputs, log)
    /\ other # UndefinedValue => UsesOwnInputs(other.callerInputs, other.log)

OverlappingCallsIndependentWitness ==
    /\ pc = "done"
    /\ other # UndefinedValue
    /\ other.pc = "done"
    /\ HookOf("handleInput") = "double"
    /\ other.callerInputs # callerInputs
    /\ \E i \in DOMAIN log, j \in DOMAIN other.log :
          /\ log[i].fn = "handleOutput"
          /\ other.log[j].fn = "handleError"
          /\ log[i].inputs # other.log[j].inputs

(***************************************************************************)
(* C21  Asynchronous definition, output stage: handleOutput is invoked     *)
(* only after the promise the definition returned has been fulfilled, and  *)
(* is passed the value it was fulfilled with.                              *)
(***************************************************************************)
AsyncOutputAfterCompletion ==
    remembered # UndefinedValue =>
        \A j \in DOMAIN remembered.log :
            remembered.log[j].fn = "handleOutput" =>
                /\ settled # UndefinedValue
                /\ settled.kind = "return"
                /\ remembered.log[j].arg = settled.value

(***************************************************************************)
(* C22  Asynchronous definition, error stage: when the promise the         *)
(* definition returned is rejected and handleError is defined, handleError *)
(* is invoked with the reason of the rejection, what it returns is the     *)
(* result of the call, and handleOutput is not invoked.                    *)
(***************************************************************************)
AsyncErrorRecovery ==
    (/\ remembered # UndefinedValue
     /\ settled # UndefinedValue
     /\ settled.kind = "throw"
     /\ closure.handleError # NoHook) =>
        /\ \E j \in DOMAIN remembered.log :
              /\ remembered.log[j].fn = "handleError"
              /\ remembered.log[j].arg = settled.error
              /\ remembered.log[j].outcome = remembered.result
        /\ \A j \in DOMAIN remembered.log : remembered.log[j].fn # "handleOutput"

(***************************************************************************)
(* C23  Input hook as a guard: in a call where handleInput throws, neither *)
(* the definition nor handleOutput is invoked.                             *)
(***************************************************************************)
InputHookGuards ==
    \A i \in Calls("handleInput") :
        Threw(i) => Calls("definition") = {} /\ Calls("handleOutput") = {}

InputHookGuardsWitness ==
    /\ pc = "done"
    /\ HookOf("handleOutput") # NoHook
    /\ \E i \in Calls("handleInput") : Threw(i)

InputHookCacheBypass ==
    \A i \in Calls("handleInput") :
        (closure.handleInput = "memoize" /\ CacheHas(log[i].inputs[1]) /\ Returned(i)) =>
            /\ Calls("definition") = {}
            /\ pc = "done" => result = Returns(Num(CacheGet(log[i].inputs[1])))

(***************************************************************************)
(* C26  Strict equality: the call made for an example having returned,     *)
(* createFunctionWithMiddleware throws at that example exactly when the    *)
(* value returned and the expected output are not of the same type with    *)
(* the same value; the number 3 does not pass for the string "3".          *)
(***************************************************************************)
StrictEqualityDecides ==
    \A k \in DOMAIN asserted :
        (Ended(k) /\ asserted[k].outcome.kind = "return") =>
            LET actual == asserted[k].outcome.value
                expected == ExampleOf(k)[2]
            IN  (dpc = "threw" /\ k = Len(asserted))
                    <=> ~(actual.t = expected.t /\ JsString(actual) = JsString(expected))

StrictEqualityDecidesWitness ==
    /\ dpc = "threw"
    /\ \E k \in DOMAIN asserted :
          /\ Ended(k)
          /\ asserted[k].outcome = Returns(Num(3))
          /\ ExampleOf(k)[2] = Str("3")

(***************************************************************************)
(* C27  The examples exercise functionWithMiddleware: when the call made   *)
(* for an example has ended, its inputs have gone through handleInput, the *)
(* definition has been invoked with what handleInput returned, its output  *)
(* has gone through handleOutput, or its error through handleError; and    *)
(* the result of that call is what is compared with the expected output.   *)
(***************************************************************************)
ExamplesExerciseWrapped ==
    /\ [](dpc = "asserting" /\ pc = "done" =>
            /\ callerInputs = asserted[Len(asserted)].inputs
            /\ closure.handleInput # NoHook =>
                   \E i \in Calls("handleInput") : log[i].inputs = callerInputs
            /\ (closure.handleInput = NoHook \/ \E i \in Calls("handleInput") : Returned(i)) =>
                   \E i \in Calls("definition") :
                       log[i].inputs = IF closure.handleInput = NoHook THEN callerInputs
                                       ELSE HandleInputFn(closure.handleInput,
                                                          callerInputs).value
            /\ \A i \in Calls("definition") :
                   /\ Returned(i) =>
                          IF closure.handleOutput = NoHook THEN result = log[i].outcome
                          ELSE \E j \in Calls("handleOutput") :
                                  /\ log[j].arg = log[i].outcome.value
                                  /\ Returned(j) => result = log[j].outcome
                   /\ Threw(i) =>
                          IF closure.handleError = NoHook THEN result = log[i].outcome
                          ELSE \E j \in Calls("handleError") :
                                  /\ log[j].arg = log[i].outcome.error
                                  /\ result = log[j].outcome)
    /\ [][(dpc = "asserting" /\ pc = "done") =>
            /\ asserted'[Len(asserted)].outcome = result
            /\ dpc' = "threw" <=>
                   (result.kind = "throw"
                       \/ result.value # AssertionList(closure)[assertIndex][2])]_vars

ExamplesExerciseWrappedWitness ==
    /\ dpc = "asserting"
    /\ pc = "done"
    /\ Len(log) = 3
    /\ log[1].outcome = Returns(log[2].inputs)
    /\ log[2].inputs # callerInputs
    /\ result = Returns(AssertionList(closure)[assertIndex][2])
    /\ result # DefinitionFn(definition, callerInputs)

(***************************************************************************)
(* C28  When the call made for an example throws,                          *)
(* createFunctionWithMiddleware throws that same error, calls no further   *)
(* example and returns no function.                                        *)
(***************************************************************************)
ExampleErrorPropagates ==
    \A k \in DOMAIN asserted :
        (Ended(k) /\ asserted[k].outcome.kind = "throw") =>
            /\ dpc = "threw"
            /\ decorateError = asserted[k].outcome.error
            /\ k = Len(asserted)
            /\ decorated = "none"
            /\ ~ENABLED AssertCall
            /\ ~ENABLED DecorateReturn

ExampleErrorPropagatesWitness ==
    /\ dpc = "threw"
    /\ Len(AssertionList(config)) = 2
    /\ Len(asserted) = 1
    /\ asserted[1].outcome = Throws(JsError("Cannot divide by zero"))
    /\ decorateError = JsError("Cannot divide by zero")

(***************************************************************************)
(* C29  When handleError throws, the call throws that error: handleError   *)
(* is invoked at most once in a call, nothing is invoked after it, so      *)
(* neither handleError again nor handleOutput, and the call ends as        *)
(* handleError ended.                                                      *)
(***************************************************************************)
ErrorHookThrowPropagates ==
    /\ Cardinality(Calls("handleError")) <= 1
    /\ \A j \in Calls("handleError") :
          /\ j = Len(log)
          /\ pc = "done"
          /\ Threw(j) => result = Throws(log[j].outcome.error)

ErrorHookThrowPropagatesWitness ==
    /\ pc = "done"
    /\ HookOf("handleError") = "rethrow"
    /\ HookOf("handleOutput") # NoHook
    /\ \E j \in Calls("handleError") : Threw(j)
    /\ result.kind = "throw"

(***************************************************************************)
(* C30  The hooks and the examples are fixed at decoration time: once      *)
(* createFunctionWithMiddleware has returned, the hooks a call invokes are *)
(* the ones the config held when it was decorated, whatever the fields of  *)
(* config hold now; no change of config makes an example be called again   *)
(* or a decoration error be raised; and no step of the decoration or of a  *)
(* call changes config or the definition.                                  *)
(***************************************************************************)
ConfigFixedAtDecoration ==
    /\ [](dpc = "returned" =>
            /\ \A i \in Calls("handleInput") :
                   /\ closure.handleInput # NoHook
                   /\ log[i].outcome = HandleInputFn(closure.handleInput, log[i].inputs)
            /\ \A i \in Calls("handleOutput") :
                   /\ closure.handleOutput # NoHook
                   /\ log[i].outcome = HandleOutputFn(closure.handleOutput, log[i].arg,
                                                      log[i].inputs)
            /\ \A i \in Calls("handleError") :
                   /\ closure.handleError # NoHook
                   /\ log[i].outcome = HandleErrorFn(closure.handleError, log[i].arg,
                                                     log[i].inputs)
            /\ (closure.handleInput # NoHook /\ pc \in {"invoke", "output", "catch", "done"}) =>
                   Calls("handleInput") # {}
            /\ (closure.handleOutput # NoHook /\ pc = "done" /\ result.kind = "return") =>
                   Calls("handleOutput") # {} \/ Calls("handleError") # {}
            /\ (closure.handleError # NoHook /\ pc = "done" /\ result.kind = "throw") =>
                   Calls("handleError") # {})
    /\ [][dpc = "returned" =>
            /\ closure'.handleError = closure.handleError
            /\ closure'.handleInput = closure.handleInput
            /\ closure'.handleOutput = closure.handleOutput
            /\ asserted' = asserted
            /\ assertIndex' = assertIndex
            /\ dpc' = "returned"
            /\ decorateError' = UndefinedValue]_vars
    /\ [][(config' # config \/ definition' # definition) =>
            \/ \E field \in ConfigFields : \E v \in FieldValues(field) : AssignField(field, v)
            \/ \E example \in LateExamples : PushExample(example)]_vars

ConfigFixedAtDecorationWitness ==
    /\ dpc = "returned"
    /\ pc = "done"
    /\ Len(asserted) >= 1
    /\ config.handleInput # closure.handleInput
    /\ config.handleInput # NoHook
    /\ \E i \in Calls("handleInput") :
          log[i].outcome # HandleInputFn(config.handleInput, log[i].inputs)

====
